---- MODULE Spec2Model ----
(***************************************************************************)
(* The research scoping workflow of src/src/research_agent_scope.py: a    *)
(* two-node graph (clarify_with_user, write_research_brief) over the      *)
(* state of src/src/states/state_scope.py.  One behaviour of the model is *)
(* one invocation of the compiled graph scope_research on one input.      *)
(*                                                                         *)
(* Strings are sequences of characters, so that concatenation (the        *)
(* f"{brief}." of write_research_brief) and emptiness are real.  The      *)
(* external chat model is the environment: every call either raises or    *)
(* returns any value of the structured-output schema it was given.        *)
(***************************************************************************)
EXTENDS Naturals, Sequences, FiniteSets

VARIABLES
    pc,                   \* the node the graph runtime is at: START, a node name, END
    raised,               \* TRUE once a node's model call raised out of the invocation
    input,                \* the mapping the caller passed to the invocation
    messages,             \* AgentState.messages channel
    research_brief,       \* AgentState.research_brief channel (None while unset)
    supervisor_messages,  \* AgentState.supervisor_messages channel
    uuid_n,               \* number of message ids the reducer has generated
    decision,             \* <<r>>: the ClarifyWithUser response r received, else << >>
    question_response,    \* <<r>>: the ResearchQuestion response r received, else << >>
    prompts,              \* the prompts sent to the model, in order
    executed,             \* the nodes that were run, in order
    brief_writes,         \* number of writes to the research_brief channel
    output                \* <<s>>: the state the invocation returned, else << >>

vars == <<pc, raised, input, messages, research_brief, supervisor_messages, uuid_n,
          decision, question_response, prompts, executed, brief_writes, output>>

(* ------------------------------ bounds -------------------------------- *)

MaxStrLen == 1
MaxInputLen == 2

(* ------------------------------ values -------------------------------- *)

START == "__start__"
END == "__end__"

None == <<"None">>
NoId == <<"none", 0>>
UserId == <<"user", 1>>

Chars == {"a", "."}
Strings == UNION {[1..n -> Chars] : n \in 0..MaxStrLen}

HumanMessage(content) == [type |-> "human", content |-> content, id |-> NoId]
AIMessage(content) == [type |-> "ai", content |-> content, id |-> NoId]

(* Conversations a caller can pass: human and assistant turns, each with  *)
(* no id or with a caller-chosen id.  Nothing checks the input, so a      *)
(* caller-chosen id may repeat.                                           *)
InputContents == {<<"a">>, <<".">>}
InputMessages == [type : {"human", "ai"}, content : InputContents, id : {NoId, UserId}]
InputSequences == UNION {[1..n -> InputMessages] : n \in 0..MaxInputLen}
Inputs == [messages : InputSequences, research_brief : {None, <<"a">>}]

(* The values the model can return under each structured-output schema.   *)
ClarifyWithUser == [need_clarification : BOOLEAN, question : Strings, verification : Strings]
ResearchQuestion == [research_brief : Strings]

(* --------------------------- the reducer ------------------------------ *)

NoIdCount(msgs, i) == Cardinality({j \in 1..i : msgs[j].id = NoId})

(* add_messages gives every message without an id a fresh one.            *)
WithIds(msgs, n) ==
    [i \in DOMAIN msgs |->
        IF msgs[i].id = NoId
        THEN [msgs[i] EXCEPT !.id = <<"uuid", n + NoIdCount(msgs, i)>>]
        ELSE msgs[i]]

IndexOfId(msgs, id) == {i \in DOMAIN msgs : msgs[i].id = id}

RECURSIVE Merge(_, _)
Merge(merged, right) ==
    IF right = << >> THEN merged
    ELSE LET m == Head(right)
             at == IndexOfId(merged, m.id)
         IN  IF at # {}
             THEN Merge([merged EXCEPT ![CHOOSE i \in at : TRUE] = m], Tail(right))
             ELSE Merge(Append(merged, m), Tail(right))

add_messages_Overwrite(left, right, n) == WithIds(right, n)

(* Annotated[..., add_messages]: a message whose id is already in the     *)
(* merged list (the channel, or an earlier message of the same update)    *)
(* replaces that message in place, any other message is appended.         *)
add_messages(left, right, n) == Merge(left, WithIds(right, n))

(* get_buffer_string: one "<Role>: <content>" line per message.           *)
RolePrefix(m) == IF m.type = "human" THEN "Human: " ELSE "AI: "
RECURSIVE get_buffer_string(_)
get_buffer_string(msgs) ==
    IF msgs = << >> THEN << >>
    ELSE LET line == <<RolePrefix(Head(msgs))>> \o Head(msgs).content
         IN  IF Len(msgs) = 1 THEN line
             ELSE line \o <<"\n">> \o get_buffer_string(Tail(msgs))

(* ----------------------------- the graph ------------------------------ *)

InputChannels_AgentState == {"messages", "research_brief"}

(* StateGraph(AgentState, input_schema=AgentInputState): of the caller's  *)
(* mapping only the keys of AgentInputState are written to the state.     *)
InputChannels == {"messages"}

EdgeAfter_Cycle(node) ==
    IF node = START THEN "clarify_with_user" ELSE "clarify_with_user"

(* add_edge(START, "clarify_with_user"); add_edge("write_research_brief", END) *)
EdgeAfter(node) ==
    IF node = START THEN "clarify_with_user" ELSE END

ClarifyPrompt(state_messages) ==
    [template |-> "clarify_with_user_instructions",
     messages |-> get_buffer_string(state_messages)]

BriefPrompt_StaleState(state_messages) ==
    [template |-> "transform_messages_into_research_topic_prompt",
     messages |-> get_buffer_string(SubSeq(state_messages, 1, Len(state_messages) - 1))]

BriefPrompt(state_messages) ==
    [template |-> "transform_messages_into_research_topic_prompt",
     messages |-> get_buffer_string(state_messages)]

ClarifyCommand_SwappedFields(response) ==
    IF response.need_clarification
    THEN [goto |-> END, update |-> <<AIMessage(response.verification)>>]
    ELSE [goto |-> "write_research_brief", update |-> <<AIMessage(response.question)>>]

ClarifyCommand_AlwaysBrief(response) ==
    IF response.need_clarification
    THEN [goto |-> "write_research_brief", update |-> <<AIMessage(response.question)>>]
    ELSE [goto |-> "write_research_brief", update |-> <<AIMessage(response.verification)>>]

ClarifyCommand_NoUpdate(response) ==
    IF response.need_clarification
    THEN [goto |-> END, update |-> <<AIMessage(response.question)>>]
    ELSE [goto |-> "write_research_brief", update |-> << >>]

(* The Command clarify_with_user returns for a model response.            *)
ClarifyCommand(response) ==
    IF response.need_clarification
    THEN [goto |-> END, update |-> <<AIMessage(response.question)>>]
    ELSE [goto |-> "write_research_brief", update |-> <<AIMessage(response.verification)>>]

BriefUpdate_NoPeriod(response) ==
    [research_brief |-> response.research_brief,
     supervisor_messages |-> <<HumanMessage(response.research_brief)>>]

(* The update write_research_brief returns for a model response.          *)
BriefUpdate(response) ==
    [research_brief |-> response.research_brief,
     supervisor_messages |-> <<HumanMessage(response.research_brief \o <<".">>)>>]

StateValues(msgs, brief, sup) ==
    [messages |-> msgs, research_brief |-> brief, supervisor_messages |-> sup]

OnModelError_PartialState(state) == <<state>>

(* Neither node catches what structured_output_model.invoke raises: the   *)
(* exception leaves the invocation, which returns nothing.                *)
OnModelError(state) == << >>

(* ------------------------------ actions ------------------------------- *)

Init ==
    /\ pc = START
    /\ raised = FALSE
    /\ input \in Inputs
    /\ messages = << >>
    /\ research_brief = None
    /\ supervisor_messages = << >>
    /\ uuid_n = 0
    /\ decision = << >>
    /\ question_response = << >>
    /\ prompts = << >>
    /\ executed = << >>
    /\ brief_writes = 0
    /\ output = << >>

(* scope_research.invoke(input): the input is written to the state        *)
(* through the input schema and the START edge is followed.               *)
Invoke ==
    /\ pc = START
    /\ ~raised
    /\ messages' = IF "messages" \in InputChannels
                   THEN add_messages(messages, input.messages, uuid_n)
                   ELSE messages
    /\ uuid_n' = IF "messages" \in InputChannels
                 THEN uuid_n + NoIdCount(input.messages, Len(input.messages))
                 ELSE uuid_n
    /\ research_brief' = IF "research_brief" \in InputChannels /\ input.research_brief # None
                         THEN input.research_brief
                         ELSE research_brief
    /\ brief_writes' = IF "research_brief" \in InputChannels /\ input.research_brief # None
                       THEN brief_writes + 1
                       ELSE brief_writes
    /\ pc' = EdgeAfter(START)
    /\ UNCHANGED <<raised, input, supervisor_messages, decision, question_response,
                   prompts, executed, output>>

clarify_with_user ==
    /\ pc = "clarify_with_user"
    /\ ~raised
    /\ executed' = Append(executed, "clarify_with_user")
    /\ prompts' = Append(prompts, ClarifyPrompt(messages))
    /\ \/ \E response \in ClarifyWithUser :
            LET cmd == ClarifyCommand(response)
                msgs == add_messages(messages, cmd.update, uuid_n)
            IN  /\ decision' = <<response>>
                /\ messages' = msgs
                /\ uuid_n' = uuid_n + Len(cmd.update)
                /\ pc' = cmd.goto
                /\ output' = IF cmd.goto = END
                             THEN <<StateValues(msgs, research_brief, supervisor_messages)>>
                             ELSE output
                /\ UNCHANGED raised
       \/ /\ raised' = TRUE
          /\ output' = OnModelError(StateValues(messages, research_brief, supervisor_messages))
          /\ UNCHANGED <<decision, messages, uuid_n, pc>>
    /\ UNCHANGED <<input, research_brief, supervisor_messages, question_response, brief_writes>>

write_research_brief ==
    /\ pc = "write_research_brief"
    /\ ~raised
    /\ executed' = Append(executed, "write_research_brief")
    /\ prompts' = Append(prompts, BriefPrompt(messages))
    /\ \/ \E response \in ResearchQuestion :
            LET upd == BriefUpdate(response)
                sup == add_messages(supervisor_messages, upd.supervisor_messages, uuid_n)
                next == EdgeAfter("write_research_brief")
            IN  /\ question_response' = <<response>>
                /\ research_brief' = upd.research_brief
                /\ brief_writes' = brief_writes + 1
                /\ supervisor_messages' = sup
                /\ uuid_n' = uuid_n + Len(upd.supervisor_messages)
                /\ pc' = next
                /\ output' = IF next = END
                             THEN <<StateValues(messages, upd.research_brief, sup)>>
                             ELSE output
                /\ UNCHANGED raised
       \/ /\ raised' = TRUE
          /\ output' = OnModelError(StateValues(messages, research_brief, supervisor_messages))
          /\ UNCHANGED <<question_response, research_brief, brief_writes,
                         supervisor_messages, uuid_n, pc>>
    /\ UNCHANGED <<input, messages, decision>>

Next == Invoke \/ clarify_with_user \/ write_research_brief

Spec == Init /\ [][Next]_vars

(* The graph runtime runs every scheduled node; nothing else competes.    *)
FairSpec == Spec /\ WF_vars(Next)

(* --------------------------- vocabulary ------------------------------- *)

Terminated == pc = END \/ raised

Decided == decision # << >>
NeedClarification == Decided /\ decision[1].need_clarification
NoClarification == Decided /\ ~decision[1].need_clarification

(* The two terminal outcomes of the scoping workflow.                     *)
ClarificationRequested ==
    /\ pc = END /\ ~raised
    /\ executed = <<"clarify_with_user">>
    /\ research_brief = None
BriefProduced ==
    /\ pc = END /\ ~raised
    /\ executed = <<"clarify_with_user", "write_research_brief">>
    /\ research_brief # None

(* msgs is the conversation conv (ids the caller gave kept, the others    *)
(* generated) followed by exactly one assistant message with this content *)
ExtendsByAssistant(msgs, conv, content) ==
    /\ Len(msgs) = Len(conv) + 1
    /\ \A i \in DOMAIN conv :
          /\ msgs[i].type = conv[i].type
          /\ msgs[i].content = conv[i].content
          /\ conv[i].id # NoId => msgs[i].id = conv[i].id
    /\ msgs[Len(msgs)].type = "ai"
    /\ msgs[Len(msgs)].content = content

(* The conversation the messages channel holds for an input, stated      *)
(* without the reducer: one slot per message without an id and per        *)
(* distinct caller-given id, in order of first appearance, holding the    *)
(* last message that carries that id.                                     *)
RepeatsId(conv) ==
    \E i, j \in DOMAIN conv : i # j /\ conv[i].id # NoId /\ conv[i].id = conv[j].id
FirstOccurrences(conv) ==
    {i \in DOMAIN conv :
        conv[i].id = NoId \/ \A j \in 1..(i - 1) : conv[j].id # conv[i].id}
LastWithSameId(conv, i) ==
    IF conv[i].id = NoId THEN i
    ELSE CHOOSE j \in DOMAIN conv :
            /\ conv[j].id = conv[i].id
            /\ \A k \in DOMAIN conv : conv[k].id = conv[i].id => k <= j
StoredConversation(conv) ==
    LET slots == FirstOccurrences(conv)
        slot(k) == CHOOSE i \in slots : Cardinality({j \in slots : j <= i}) = k
    IN  [k \in 1..Cardinality(slots) |-> conv[LastWithSameId(conv, slot(k))]]

IsPrefix(s, t) == Len(s) <= Len(t) /\ \A i \in DOMAIN s : t[i] = s[i]

(* ------------------------------- C1 ----------------------------------- *)

(* C1 as stated: every invocation that has ended ended in exactly one of  *)
(* clarification-requested and brief-produced.                            *)
C1_EveryEndIsOneOfTwoOutcomes ==
    (input.messages # << >> /\ Terminated) =>
        \/ (ClarificationRequested /\ ~BriefProduced)
        \/ (BriefProduced /\ ~ClarificationRequested)

(* C1 amended: every invocation eventually ends, and it ends in exactly   *)
(* one of clarification-requested, brief-produced and aborted by a failed *)
(* model call; when no model call failed it is one of the first two.      *)
C1_ExactlyOneOfThreeOutcomes ==
    /\ <>Terminated
    /\ [](Terminated =>
            /\ Cardinality({o \in {"clarification", "brief", "aborted"} :
                  \/ (o = "clarification" /\ ClarificationRequested)
                  \/ (o = "brief" /\ BriefProduced)
                  \/ (o = "aborted" /\ raised)}) = 1
            /\ ClarificationRequested => output # << >> /\ NeedClarification
            /\ BriefProduced => output # << >> /\ NoClarification)

C1_Witness_BriefAfterNonEmptyInput ==
    BriefProduced /\ input.messages # << >> /\ output # << >>

(* ------------------------------- C2 ----------------------------------- *)

(* C2 as stated: when the decision has need_clarification = true the     *)
(* workflow ends without running write_research_brief; research_brief is  *)
(* unset and messages is the input messages followed by exactly one       *)
(* assistant message, the decision's question.                            *)
C2_InputFollowedByQuestion ==
    NeedClarification =>
        /\ pc = END /\ ~raised
        /\ executed = <<"clarify_with_user">>
        /\ research_brief = None
        /\ ExtendsByAssistant(messages, input.messages, decision[1].question)

(* C2 amended: as C2, with messages being the input messages as the       *)
(* messages channel stores them (a message repeating a caller-given id    *)
(* replaces the earlier one in place; the input itself when no id         *)
(* repeats) followed by exactly one assistant message, the question; that *)
(* state is what the invocation returns.                                  *)
C2_ClarificationEndsWithQuestion ==
    NeedClarification =>
        /\ pc = END /\ ~raised
        /\ executed = <<"clarify_with_user">>
        /\ research_brief = None
        /\ supervisor_messages = << >>
        /\ ExtendsByAssistant(messages, StoredConversation(input.messages),
                              decision[1].question)
        /\ ~RepeatsId(input.messages) =>
              ExtendsByAssistant(messages, input.messages, decision[1].question)
        /\ output = <<StateValues(messages, None, << >>)>>

C2_Witness_QuestionAfterRepeatedId ==
    /\ NeedClarification
    /\ pc = END
    /\ RepeatsId(input.messages)
    /\ decision[1].question # decision[1].verification

(* ------------------------------- C3 ----------------------------------- *)

(* C3 as stated: when the decision has need_clarification = false        *)
(* control goes to write_research_brief, and in the final state messages  *)
(* is the input messages followed by exactly one assistant message, the   *)
(* decision's verification.                                               *)
C3_InputFollowedByVerification ==
    (NoClarification /\ pc = END) =>
        /\ executed = <<"clarify_with_user", "write_research_brief">>
        /\ ExtendsByAssistant(messages, input.messages, decision[1].verification)

(* C3 amended: as C3, with messages being the input messages as the       *)
(* messages channel stores them (a message repeating a caller-given id    *)
(* replaces the earlier one in place; the input itself when no id         *)
(* repeats) followed by exactly one assistant message, the verification   *)
(* (write_research_brief adds nothing to messages).                       *)
C3_NoClarificationProceedsWithVerification ==
    NoClarification =>
        /\ \/ pc = "write_research_brief" /\ executed = <<"clarify_with_user">>
           \/ executed = <<"clarify_with_user", "write_research_brief">>
        /\ ExtendsByAssistant(messages, StoredConversation(input.messages),
                              decision[1].verification)
        /\ ~RepeatsId(input.messages) =>
              ExtendsByAssistant(messages, input.messages, decision[1].verification)
        /\ pc = END => output # << >> /\ output[1].messages = messages

C3_Witness_VerificationAfterRepeatedId ==
    /\ NoClarification
    /\ pc = END
    /\ RepeatsId(input.messages)
    /\ decision[1].question # decision[1].verification

(* ------------------------------- C4 ----------------------------------- *)

(* C4: in the brief-produced outcome research_brief is the string the     *)
(* model returned, and supervisor_messages holds exactly one message, a   *)
(* human message whose content is research_brief followed by one period.  *)
C4_BriefAndSupervisorSeed ==
    BriefProduced =>
        /\ question_response # << >>
        /\ research_brief = question_response[1].research_brief
        /\ Len(supervisor_messages) = 1
        /\ supervisor_messages[1].type = "human"
        /\ supervisor_messages[1].content = research_brief \o <<".">>
        /\ output = <<StateValues(messages, research_brief, supervisor_messages)>>

C4_Witness_BriefEndingWithPeriod ==
    /\ BriefProduced
    /\ research_brief # << >>
    /\ research_brief[Len(research_brief)] = "."

(* ------------------------------- C5 ----------------------------------- *)

(* C5: in every brief-produced terminal state research_brief is a        *)
(* non-empty string, whatever the model returned under ResearchQuestion.  *)
C5_BriefIsNonEmpty ==
    BriefProduced => research_brief # << >>

(* ------------------------------- C6 ----------------------------------- *)

(* C6: research_brief is written at most once, only by                    *)
(* write_research_brief, and whenever it is set the decision of the       *)
(* invocation had need_clarification = false.                             *)
C6_BriefWrittenOnceAfterNoClarification ==
    /\ brief_writes <= 1
    /\ brief_writes = 0 <=> research_brief = None
    /\ brief_writes = 1 =>
          /\ executed = <<"clarify_with_user", "write_research_brief">>
          /\ ~raised
          /\ NoClarification

C6_Witness_BriefWrittenWithInputBrief ==
    /\ brief_writes = 1
    /\ research_brief # None
    /\ input.research_brief # None
    /\ research_brief # input.research_brief

(* ------------------------------- C7 ----------------------------------- *)

(* C7: across every step messages only grows by appending: its value      *)
(* before the step is a prefix of its value after the step.               *)
C7_MessagesAppendOnly ==
    [][IsPrefix(messages, messages')]_vars

C7_Witness_AppendedToInputWithId ==
    /\ Len(messages) = Len(input.messages) + 1
    /\ Len(input.messages) = MaxInputLen
    /\ \E i \in DOMAIN input.messages : input.messages[i].id = UserId

(* ------------------------------- C8 ----------------------------------- *)

Transitions ==
    { <<START, "clarify_with_user">>,
      <<"clarify_with_user", END>>,
      <<"clarify_with_user", "write_research_brief">>,
      <<"write_research_brief", END>> }

(* C8: control moves only along Start -> clarify_with_user,               *)
(* clarify_with_user -> End, clarify_with_user -> write_research_brief,   *)
(* write_research_brief -> End; each node runs at most once, and          *)
(* write_research_brief only after clarify_with_user has completed.       *)
C8_ControlFlow ==
    /\ [][pc' # pc => <<pc, pc'>> \in Transitions]_vars
    /\ [][executed' # executed =>
            /\ executed' = Append(executed, pc)
            /\ pc \notin {executed[i] : i \in DOMAIN executed}
            /\ pc = "write_research_brief" =>
                  executed = <<"clarify_with_user">> /\ NoClarification]_vars
    /\ [][pc = END => UNCHANGED vars]_vars

C8_Witness_BothNodesRan ==
    pc = END /\ executed = <<"clarify_with_user", "write_research_brief">>

(* ------------------------------- C9 ----------------------------------- *)

(* C9: when the model call of either node fails the invocation aborts:    *)
(* nothing runs afterwards, the model was called once per node run, and   *)
(* the invocation returns no state.                                       *)
C9_FailureReturnsNothing ==
    raised =>
        /\ output = << >>
        /\ ~ENABLED Next
        /\ Len(prompts) = Len(executed)
        /\ research_brief = None
        /\ supervisor_messages = << >>

C9_Witness_FailureAfterVerification ==
    /\ raised
    /\ executed = <<"clarify_with_user", "write_research_brief">>
    /\ Len(messages) = Len(input.messages) + 1

(* ------------------------------- C10 ---------------------------------- *)

(* C10 as stated: the conversation write_research_brief renders into its *)
(* prompt is the input messages followed by the assistant verification    *)
(* message, never the input messages alone.                               *)
C10_BriefPromptIsInputPlusVerification ==
    Len(prompts) = 2 =>
        /\ prompts[2].messages =
              get_buffer_string(input.messages \o <<AIMessage(decision[1].verification)>>)
        /\ prompts[2].messages # get_buffer_string(input.messages)

(* C10 amended: the update of clarify_with_user is applied before         *)
(* write_research_brief runs: the conversation it renders is the input    *)
(* messages as the messages channel stores them (the input itself when no *)
(* caller-given id repeats) followed by the assistant verification        *)
(* message, never the stored conversation without that message.           *)
C10_BriefPromptSeesVerification ==
    Len(executed) = 2 /\ executed[2] = "write_research_brief" =>
        /\ Len(prompts) = 2
        /\ NoClarification
        /\ prompts[2].template = "transform_messages_into_research_topic_prompt"
        /\ prompts[2].messages =
              get_buffer_string(StoredConversation(input.messages)
                                \o <<AIMessage(decision[1].verification)>>)
        /\ prompts[2].messages # get_buffer_string(StoredConversation(input.messages))
        /\ ~RepeatsId(input.messages) =>
              prompts[2].messages =
                get_buffer_string(input.messages \o <<AIMessage(decision[1].verification)>>)

C10_Witness_BriefPromptAfterRepeatedId ==
    /\ Len(prompts) = 2
    /\ RepeatsId(input.messages)
    /\ decision[1].verification # << >>

====
